---- MODULE Spec2Model ----
(***************************************************************************)
(* A model of the survey / visualisation Streamlit application:            *)
(*   src/Survey.py        text form that appends a row to data.csv         *)
(*   src/pages/Survey.py  select-box / slider form that appends a row      *)
(*   src/pages/Visuals.py loads data.csv and data.json and draws charts    *)
(*                                                                         *)
(* A Streamlit script runs from top to bottom on every interaction, so     *)
(* each script is one action whose parameters are the widget values.       *)
(*                                                                         *)
(* Text is modelled as a sequence of one-character strings, so that        *)
(* str.strip, the CSV quoting of DataFrame.to_csv and the tokenizer of     *)
(* pandas.read_csv are computed character by character.                    *)
(***************************************************************************)
EXTENDS Integers, Sequences, FiniteSets, TLC

(***************************************************************************)
(* Bounds of the model.                                                    *)
(***************************************************************************)
\* most rows the submissions of one run of the model write to data.csv
MaxSubmits == 3
\* most data rows of a table the aggregation is explored on
MaxRows == 3

(***************************************************************************)
(* Text helpers.                                                           *)
(***************************************************************************)
\* the missing value of a pandas cell; no text equals it (texts hold
\* one-character strings only)
NaN == <<"NaN">>

\* the characters of the model in ascending code point order
Ascii ==
  <<"\n", " ", "\"", ",", "-", "/",
    "0", "1", "2", "3", "4", "5", "6", "7", "8", "9",
    "A", "B", "C", "D", "G", "H", "K", "L", "N", "O", "S",
    "a", "b", "c", "d", "e", "g", "h", "i", "l", "m", "n", "o", "r", "s",
    "t", "u", "v", "x", "y">>

\* the rank of a character by code point: Python's sorted() and "<" compare
\* text by ord(), of which only the order matters
OrdTable ==
  [c \in {Ascii[i] : i \in DOMAIN Ascii} |->
     CHOOSE i \in DOMAIN Ascii : Ascii[i] = c]

ord(c) == OrdTable[c]

\* Python's "<" on str: lexicographic by code point, a proper prefix first
RECURSIVE StrLess(_, _)
StrLess(s, t) ==
  IF t = <<>> THEN FALSE
  ELSE IF s = <<>> THEN TRUE
  ELSE IF ord(Head(s)) /= ord(Head(t)) THEN ord(Head(s)) < ord(Head(t))
  ELSE StrLess(Tail(s), Tail(t))

IsSpace(c) == c \in {" ", "\n"}

RECURSIVE lstrip(_)
lstrip(s) ==
  IF s /= <<>> /\ IsSpace(Head(s)) THEN lstrip(Tail(s)) ELSE s

RECURSIVE rstrip(_)
rstrip(s) ==
  IF s /= <<>> /\ IsSpace(s[Len(s)]) THEN rstrip(SubSeq(s, 1, Len(s) - 1)) ELSE s

\* str.strip(): leading and trailing whitespace removed, inner kept
strip(s) == rstrip(lstrip(s))

\* str(rating) of the slider's integer 1..10
IntToStr(n) ==
  LET digit(d) == CASE d = 0 -> "0" [] d = 1 -> "1" [] d = 2 -> "2"
                    [] d = 3 -> "3" [] d = 4 -> "4" [] d = 5 -> "5"
                    [] d = 6 -> "6" [] d = 7 -> "7" [] d = 8 -> "8"
                    [] OTHER -> "9"
  IN IF n < 10 THEN <<digit(n)>> ELSE <<digit(n \div 10), digit(n % 10)>>

(***************************************************************************)
(* DataFrame.to_csv(index=False): csv.QUOTE_MINIMAL.                       *)
(***************************************************************************)
NeedsQuote(s) == \E i \in 1..Len(s) : s[i] \in {",", "\"", "\n"}

RECURSIVE DoubleQuotes(_)
DoubleQuotes(s) ==
  IF s = <<>> THEN <<>>
  ELSE (IF Head(s) = "\"" THEN <<"\"", "\"">> ELSE <<Head(s)>>)
         \o DoubleQuotes(Tail(s))

\* mutant: fields are written as they are, never quoted
QuoteField_Unquoted(s) == s

QuoteField(s) ==
  IF NeedsQuote(s) THEN <<"\"">> \o DoubleQuotes(s) \o <<"\"">> ELSE s

\* one record: the quoted fields joined by "," and ended by a newline
RECURSIVE FormatFields(_)
FormatFields(fields) ==
  IF Len(fields) = 1 THEN QuoteField(fields[1]) \o <<"\n">>
  ELSE QuoteField(Head(fields)) \o <<",">> \o FormatFields(Tail(fields))

RECURSIVE FormatRows(_)
FormatRows(rows) ==
  IF rows = <<>> THEN <<>> ELSE FormatFields(Head(rows)) \o FormatRows(Tail(rows))

\* the two columns of the ingestion file
category == <<"c", "a", "t", "e", "g", "o", "r", "y">>
value == <<"v", "a", "l", "u", "e">>
Columns == <<category, value>>

\* the header line to_csv writes for these columns
HeaderLine == FormatFields(Columns)

\* pd.DataFrame([{"category": c, "value": v}])
OneRow(c, v) == [columns |-> Columns, rows |-> << <<c, v>> >>]

\* df.to_csv(path, index=False): mode "w", header written; the old content
\* is replaced
to_csv_write(df) ==
  [exists |-> TRUE, data |-> FormatFields(df.columns) \o FormatRows(df.rows)]

\* df.to_csv(path, mode="a", header=False, index=False)
to_csv_append(df, file) ==
  [exists |-> TRUE, data |-> file.data \o FormatRows(df.rows)]

(***************************************************************************)
(* pandas.read_csv: the C tokenizer, then the frame.                       *)
(***************************************************************************)
\* Tokenizer states START_RECORD, START_FIELD, IN_FIELD, IN_QUOTED_FIELD,
\* QUOTE_IN_QUOTED_FIELD. Yields the records of the stream, each a sequence
\* of fields, or ok = FALSE at "EOF inside string".
RECURSIVE Tokenize(_, _, _, _, _, _)
Tokenize(s, i, state, fld, row, rows) ==
  IF i > Len(s) THEN
    CASE state = "START_RECORD" -> [ok |-> TRUE, rows |-> rows]
      [] state = "IN_QUOTED_FIELD" -> [ok |-> FALSE, rows |-> rows]
      [] OTHER -> [ok |-> TRUE, rows |-> Append(rows, Append(row, fld))]
  ELSE
    LET c == s[i] IN
    CASE state = "START_RECORD" /\ c = "\n" ->
           \* skip_blank_lines
           Tokenize(s, i + 1, "START_RECORD", <<>>, <<>>, rows)
      [] state \in {"START_RECORD", "START_FIELD"} /\ c = "\"" ->
           Tokenize(s, i + 1, "IN_QUOTED_FIELD", <<>>, row, rows)
      [] state = "IN_QUOTED_FIELD" /\ c = "\"" ->
           Tokenize(s, i + 1, "QUOTE_IN_QUOTED_FIELD", fld, row, rows)
      [] state = "IN_QUOTED_FIELD" /\ c /= "\"" ->
           Tokenize(s, i + 1, "IN_QUOTED_FIELD", Append(fld, c), row, rows)
      [] state = "QUOTE_IN_QUOTED_FIELD" /\ c = "\"" ->
           Tokenize(s, i + 1, "IN_QUOTED_FIELD", Append(fld, c), row, rows)
      [] c = "\n" ->
           Tokenize(s, i + 1, "START_RECORD", <<>>, <<>>,
                    Append(rows, Append(row, fld)))
      [] c = "," ->
           Tokenize(s, i + 1, "START_FIELD", <<>>, Append(row, fld), rows)
      [] OTHER ->
           Tokenize(s, i + 1, "IN_FIELD", Append(fld, c), row, rows)

\* the default na_values of read_csv, over the model's characters
NaStrings == {<<>>, <<"N", "A">>, <<"N", "a", "N">>, <<"n", "a", "n">>,
              <<"n", "/", "a">>, <<"N", "/", "A">>}

NaConvert(fld) == IF fld \in NaStrings THEN NaN ELSE fld

Max(a, b) == IF a >= b THEN a ELSE b

\* the frame of the tokenized records: the first record names the columns.
\* raised = TRUE stands for EmptyDataError (no columns to parse) or
\* ParserError (EOF inside string; a record after the first with more fields
\* than expected). Short records are filled with NaN. Cells are kept as text:
\* dtype inference is left out.
FrameOf(t) ==
  LET header == t.rows[1]
      body == Tail(t.rows)
      width == IF body = <<>> THEN Len(header)
               ELSE Max(Len(header), Len(body[1]))
      cell(r, j) == IF j <= Len(r) THEN NaConvert(r[j]) ELSE NaN
      failed == [raised |-> TRUE, columns |-> <<>>, rows |-> <<>>]
  IN IF ~t.ok \/ t.rows = <<>> THEN failed
     ELSE IF \E k \in 2..Len(body) : Len(body[k]) > width THEN failed
     ELSE [raised |-> FALSE,
           columns |-> header,
           rows |-> [k \in 1..Len(body) |->
                       [j \in 1..Len(header) |-> cell(body[k], j)]]]

\* pd.read_csv(path) of a file of at least one byte (the file is tokenized
\* once: t ranges over the one result)
read_csv(data) ==
  CHOOSE df \in {FrameOf(t) :
                   t \in {Tokenize(data, 1, "START_RECORD", <<>>, <<>>, <<>>)}} :
    TRUE

\* pd.DataFrame(columns=["category", "value"])
EmptyFrame == [raised |-> FALSE, columns |-> Columns, rows |-> <<>>]

(***************************************************************************)
(* The reference document data.json, as json.load sees it.                 *)
(*   kind "malformed"  not valid JSON (json.load raises)                   *)
(*   kind "array"      valid JSON whose top level is a list                *)
(*   kind "object"     a top-level object; has_points tells whether it has *)
(*                     the key data_points, points_is_list whether that    *)
(*                     value is a list (otherwise it is a number)          *)
(* A point is a dict (is_dict) with or without the keys label and value,   *)
(* or a number.                                                            *)
(***************************************************************************)
Point(lbl, v) ==
  [is_dict |-> TRUE, has_label |-> TRUE, label |-> lbl,
   has_value |-> TRUE, value |-> v]
Unlabelled(v) ==
  [is_dict |-> TRUE, has_label |-> FALSE, label |-> <<>>,
   has_value |-> TRUE, value |-> v]
Scalar(v) ==
  [is_dict |-> FALSE, has_label |-> FALSE, label |-> <<>>,
   has_value |-> FALSE, value |-> v]

Doc(exists, size, kind, has_points, is_list, points) ==
  [exists |-> exists, size |-> size, kind |-> kind, has_points |-> has_points,
   points_is_list |-> is_list, points |-> points]

DocMissing == Doc(FALSE, 0, "malformed", FALSE, FALSE, <<>>)
DocZeroLength == Doc(TRUE, 0, "malformed", FALSE, FALSE, <<>>)
DocMalformed == Doc(TRUE, 1, "malformed", FALSE, FALSE, <<>>)
DocArray == Doc(TRUE, 2, "array", FALSE, FALSE, <<>>)
DocNoPoints == Doc(TRUE, 2, "object", FALSE, FALSE, <<>>)
DocPointsNumber == Doc(TRUE, 18, "object", TRUE, FALSE, <<>>)
DocPointsScalars == Doc(TRUE, 23, "object", TRUE, TRUE, <<Scalar(1), Scalar(2)>>)
DocUnlabelled == Doc(TRUE, 30, "object", TRUE, TRUE, <<Unlabelled(1)>>)
DocGood ==
  Doc(TRUE, 70, "object", TRUE, TRUE, <<Point(<<"A">>, 3), Point(<<"B">>, 1)>>)
DocBlankLabel ==
  Doc(TRUE, 70, "object", TRUE, TRUE, <<Point(<<" ">>, 3), Point(<<"B">>, 1)>>)

\* the reference documents a fresh-file run is explored with
StoreDocs == {DocMissing, DocBlankLabel}

\* the reference documents the loaders are explored with
ExternalDocs ==
  {DocMissing, DocZeroLength, DocMalformed, DocArray, DocNoPoints,
   DocPointsNumber, DocPointsScalars, DocUnlabelled, DocGood, DocBlankLabel}

(***************************************************************************)
(* Files.                                                                  *)
(***************************************************************************)
FileMissing == [exists |-> FALSE, data |-> <<>>]
FileZeroLength == [exists |-> TRUE, data |-> <<>>]

\* mutant: the size of the file is not looked at
file_exists_only(file) == file.exists

\* os.path.exists(path) and os.path.getsize(path) > 0
file_exists_and_not_empty(file) == file.exists /\ Len(file.data) > 0

json_exists_and_not_empty(doc) == doc.exists /\ doc.size > 0

(***************************************************************************)
(* Frames.                                                                 *)
(***************************************************************************)
HasColumn(df, name) == \E j \in 1..Len(df.columns) : df.columns[j] = name

\* df[name]: the cells of the first column of that name, in row order
Column(df, name) ==
  LET j == CHOOSE x \in 1..Len(df.columns) :
             /\ df.columns[x] = name
             /\ \A y \in 1..(x - 1) : df.columns[y] /= name
  IN [k \in 1..Len(df.rows) |-> df.rows[k][j]]

\* a float cell: nan, or the number n
Missing == [nan |-> TRUE, n |-> 0]
Number(n) == [nan |-> FALSE, n |-> n]

IsDigit(c) == c \in {"0", "1", "2", "3", "4", "5", "6", "7", "8", "9"}

RECURSIVE ParseDigits(_, _)
ParseDigits(s, acc) ==
  IF s = <<>> THEN acc
  ELSE ParseDigits(Tail(s), 10 * acc + (ord(Head(s)) - ord("0")))

\* pd.to_numeric(cell, errors="coerce") on whole numbers: an optional sign
\* and digits parse, anything else (and a missing cell) is nan
to_numeric(cell) ==
  LET digits == IF cell /= <<>> /\ Head(cell) = "-" THEN Tail(cell) ELSE cell
  IN IF cell = NaN \/ digits = <<>> \/ \E i \in 1..Len(digits) : ~IsDigit(digits[i])
     THEN Missing
     ELSE IF Head(cell) = "-" THEN Number(0 - ParseDigits(digits, 0))
     ELSE Number(ParseDigits(digits, 0))

\* sorted(S) for a set of texts
RECURSIVE sorted(_)
sorted(S) ==
  IF S = {} THEN <<>>
  ELSE LET m == CHOOSE x \in S : \A y \in S \ {x} : StrLess(x, y)
       IN <<m>> \o sorted(S \ {m})

Range(s) == {s[i] : i \in 1..Len(s)}

Min(a, b) == IF a <= b THEN a ELSE b

(***************************************************************************)
(* Survey pages: the "Current Data in CSV" display.                        *)
(***************************************************************************)
NoFrame == [raised |-> FALSE, columns |-> <<>>, rows |-> <<>>]
NoDisplay == [status |-> "none", df |-> NoFrame]

\* status "dataframe": st.dataframe(current_data_df); "warning": the file is
\* empty or absent; "exception": pd.read_csv raised and nothing catches it
DataDisplay(file) ==
  IF file_exists_and_not_empty(file)
  THEN LET df == read_csv(file.data)
       IN IF df.raised THEN [status |-> "exception", df |-> NoFrame]
          ELSE [status |-> "dataframe", df |-> df]
  ELSE [status |-> "warning", df |-> NoFrame]

\* steps 3 of the submitted block: append without header to a file that has
\* data, otherwise create it with the header
AppendOrCreate(new_row_df, file) ==
  IF file_exists_and_not_empty(file)
  THEN to_csv_append(new_row_df, file)
  ELSE to_csv_write(new_row_df)

\* does this write emit the header line?
WritesHeader(file) == ~file_exists_and_not_empty(file)

(***************************************************************************)
(* pages/Survey.py: the options of the select box.                         *)
(***************************************************************************)
fallback ==
  << <<"L", "i", "b", "r", "a", "r", "y">>,
     <<"D", "o", "r", "m">>,
     <<"C", "l", "o", "u", "g", "h", " ", "C", "o", "m", "m", "o", "n", "s">>,
     <<"S", "t", "u", "d", "e", "n", "t", " ", "C", "e", "n", "t", "e", "r">>,
     <<"K", "l", "a", "u", "s", " ", "A", "t", "r", "i", "u", "m">>,
     <<"O", "u", "t", "d", "o", "o", "r", " ", "G", "r", "e", "e", "n", "s">>,
     <<"D", "i", "n", "i", "n", "g", " ", "H", "a", "l", "l">> >>

\* [p.get("label") for p in points if isinstance(p, dict) and p.get("label")]
RECURSIVE Labels(_)
Labels(points) ==
  IF points = <<>> THEN <<>>
  ELSE LET p == Head(points)
       IN (IF p.is_dict /\ p.has_label /\ p.label /= <<>>
           THEN <<p.label>> ELSE <<>>) \o Labels(Tail(points))

\* json.load raising, payload.get on a list (AttributeError) and iterating a
\* number (TypeError) all end in the except branch
load_spots_from_json(doc) ==
  IF json_exists_and_not_empty(doc)
  THEN IF doc.kind /= "object" THEN fallback
       ELSE IF ~doc.has_points THEN fallback
       ELSE IF ~doc.points_is_list THEN fallback
       ELSE IF Labels(doc.points) = <<>> THEN fallback
       ELSE Labels(doc.points)
  ELSE fallback

(***************************************************************************)
(* pages/Visuals.py: loading.                                              *)
(***************************************************************************)
\* "1. Load CSV safely": a failing read_csv is replaced by the empty frame
LoadCsv(file) ==
  IF file.exists /\ Len(file.data) > 0
  THEN LET df == read_csv(file.data) IN IF df.raised THEN EmptyFrame ELSE df
  ELSE EmptyFrame

\* csv_df["numeric_value"]
numeric_value(df) ==
  IF HasColumn(df, value)
  THEN [k \in 1..Len(df.rows) |-> to_numeric(Column(df, value)[k])]
  ELSE [k \in 1..Len(df.rows) |-> Missing]

\* {"chart_title": "JSON Chart", "data_points": []}
DefaultPayload == Doc(TRUE, 0, "object", TRUE, TRUE, <<>>)

\* "2. Load JSON safely": only json.load is inside the try
json_payload(doc) ==
  IF doc.exists /\ doc.size > 0 /\ doc.kind /= "malformed" THEN doc
  ELSE DefaultPayload

\* what lines 59-60 raise: a list has no .get (AttributeError); pd.DataFrame
\* of a number is "not properly called" (ValueError)
JsonException(payload) ==
  IF payload.kind = "array" THEN "AttributeError"
  ELSE IF payload.has_points /\ ~payload.points_is_list THEN "ValueError"
  ELSE "none"

\* json_bar_df: one row per point when the frame of the points is not empty
\* and has the columns label and value
json_bar_df(payload) ==
  LET json_points == IF payload.has_points THEN payload.points ELSE <<>>
      has(key) == \E i \in 1..Len(json_points) :
                    /\ json_points[i].is_dict
                    /\ IF key = "label" THEN json_points[i].has_label
                       ELSE json_points[i].has_value
      row(p) == [Label |-> IF p.has_label THEN p.label ELSE NaN,
                 Value |-> IF p.has_value THEN Number(p.value) ELSE Missing]
  IN IF json_points /= <<>> /\ has("label") /\ has("value")
     THEN [i \in 1..Len(json_points) |-> row(json_points[i])]
     ELSE <<>>

\* sorted distinct non-missing categories, [] without a category column
all_categories(df) ==
  IF HasColumn(df, category)
  THEN sorted(Range(Column(df, category)) \ {NaN})
  ELSE <<>>

(***************************************************************************)
(* pages/Visuals.py: Graph 2, filter and aggregate.                        *)
(***************************************************************************)
\* mutant: rows without a numeric value are not dropped
Filter_KeepMissing(cats, nums, picked) ==
  {k \in 1..Len(nums) : picked /= {} => cats[k] \in picked}

\* mutant: the selection filters also when it is empty
Filter_AlwaysSelect(cats, nums, picked) ==
  {k \in 1..Len(nums) : ~nums[k].nan /\ cats[k] \in picked}

\* the rows kept by dropna(subset=["numeric_value"]) and, for a non-empty
\* selection, by isin(picked)
Filter(cats, nums, picked) ==
  {k \in 1..Len(nums) :
     /\ ~nums[k].nan
     /\ picked /= {} => cats[k] \in picked}

RECURSIVE SumRows(_, _, _, _)
SumRows(cats, nums, keep, c) ==
  IF keep = {} THEN 0
  ELSE LET k == CHOOSE x \in keep : TRUE
       IN (IF cats[k] = c THEN nums[k].n ELSE 0)
            + SumRows(cats, nums, keep \ {k}, c)

\* groupby("category", as_index=False)["numeric_value"].sum(): one row per
\* non-missing category among the kept rows, in ascending category order
GroupBySum(cats, nums, keep) ==
  LET keys == sorted({cats[k] : k \in keep} \ {NaN})
  IN [i \in 1..Len(keys) |->
        [category |-> keys[i], total |-> SumRows(cats, nums, keep, keys[i])]]

\* sort_values("total", ascending=False) with the default kind (quicksort, not
\* stable): every arrangement of the rows with non-increasing totals
\* mutant: ascending=False forgotten
sort_values_Ascending(groups) ==
  LET n == Len(groups)
      rows == Range(groups)
  IN {s \in [1..n -> rows] :
        /\ \A i, j \in 1..n : i /= j => s[i] /= s[j]
        /\ \A i, j \in 1..n : i < j => s[i].total <= s[j].total}

sort_values(groups) ==
  LET n == Len(groups)
      rows == Range(groups)
  IN {s \in [1..n -> rows] :
        /\ \A i, j \in 1..n : i /= j => s[i] /= s[j]
        /\ \A i, j \in 1..n : i < j => s[i].total >= s[j].total}

\* mutant: one row too many
head_OneMore(s, k) == SubSeq(s, 1, Min(k + 1, Len(s)))

head(s, k) == SubSeq(s, 1, Min(k, Len(s)))

\* lines 130-138: what totals can be after filter, groupby, sort and head
Graph2Totals(cats, nums, picked, top_k) ==
  {head(s, top_k) :
     s \in sort_values(GroupBySum(cats, nums, Filter(cats, nums, picked)))}

\* mutant: the picks replace the favorites
AddToFavorites_Replace(favorites, picked) == sorted(picked)

\* sorted(list({*st.session_state["favorites"], *picked}))
AddToFavorites(favorites, picked) == sorted(Range(favorites) \cup picked)

(***************************************************************************)
(* State.                                                                  *)
(***************************************************************************)
VARIABLES
  csv,            \* data.csv: [exists, data]
  json,           \* data.json, read-only
  session_state,  \* st.session_state: has_favorites, and favorites when set
  page,           \* the script that ran last
  submission,     \* the form values of that run, when it was submitted
  msg,            \* "success", "error" or "none": the form's feedback
  shown,          \* the Survey pages' data display
  visuals,        \* what the Visuals page computed and drew
  summary,        \* what the aggregate view of the specification returned
  accepted,       \* history: the rows written so far, in order
  header_writes,  \* history: how often a write emitted the header line
  added           \* history: the picks added to the favorites so far

vars == <<csv, json, session_state, page, submission, msg, shown, visuals,
          summary, accepted, header_writes, added>>

NoSubmission == [submitted |-> FALSE, category |-> <<>>, value |-> <<>>]

NoVisuals ==
  [exception |-> "none", csv_df |-> NoFrame, numeric_value |-> <<>>,
   json_bar_df |-> <<>>, g1 |-> "none", all_categories |-> <<>>,
   picked |-> {}, updated |-> FALSE, top_k |-> 0, totals |-> <<>>,
   g2 |-> "none", default_cat |-> <<>>, g3 |-> "none"]

NoSummary == [metric |-> "none", selected |-> {}, top_k |-> 0, rows |-> <<>>]

\* a new session: st.session_state holds no key
NewSession == [has_favorites |-> FALSE, favorites |-> <<>>]

Start ==
  /\ session_state = NewSession
  /\ summary = NoSummary
  /\ page = "none"
  /\ submission = NoSubmission
  /\ msg = "none"
  /\ shown = NoDisplay
  /\ visuals = NoVisuals
  /\ accepted = <<>>
  /\ header_writes = 0
  /\ added = {}

(***************************************************************************)
(* Survey.py: one run of the script.                                       *)
(***************************************************************************)
\* "1) Validate inputs": both fields non-empty after strip()
Valid(category_input, value_input) ==
  strip(category_input) /= <<>> /\ strip(value_input) /= <<>>

SurveyRun(submitted, category_input, value_input) ==
  LET writes == submitted /\ Valid(category_input, value_input)
      new_row_df == OneRow(strip(category_input), strip(value_input))
      file == IF writes THEN AppendOrCreate(new_row_df, csv) ELSE csv
  IN /\ writes => Len(accepted) < MaxSubmits
     /\ page' = "Survey"
     /\ submission' = IF submitted
                      THEN [submitted |-> TRUE, category |-> category_input,
                            value |-> value_input]
                      ELSE NoSubmission
     /\ msg' = IF ~submitted THEN "none"
               ELSE IF writes THEN "success" ELSE "error"
     /\ csv' = file
     /\ accepted' = IF writes THEN Append(accepted, new_row_df.rows[1])
                    ELSE accepted
     /\ header_writes' = IF writes /\ WritesHeader(csv)
                         THEN header_writes + 1 ELSE header_writes
     /\ shown' = DataDisplay(file)
     /\ visuals' = NoVisuals
     /\ summary' = NoSummary
     /\ UNCHANGED <<json, session_state, added>>

(***************************************************************************)
(* pages/Survey.py: one run of the script. The submitted block has no      *)
(* validation: the select box and the slider always hold a value.          *)
(***************************************************************************)
PagesSurveyRun(submitted, spot, rating) ==
  LET new_row_df == OneRow(spot, IntToStr(rating))
      file == IF submitted THEN AppendOrCreate(new_row_df, csv) ELSE csv
  IN /\ submitted => Len(accepted) < MaxSubmits
     /\ page' = "pages/Survey"
     /\ submission' = IF submitted
                      THEN [submitted |-> TRUE, category |-> spot,
                            value |-> IntToStr(rating)]
                      ELSE NoSubmission
     /\ msg' = IF submitted THEN "success" ELSE "none"
     /\ csv' = file
     /\ accepted' = IF submitted THEN Append(accepted, new_row_df.rows[1])
                    ELSE accepted
     /\ header_writes' = IF submitted /\ WritesHeader(csv)
                         THEN header_writes + 1 ELSE header_writes
     /\ shown' = DataDisplay(file)
     /\ visuals' = NoVisuals
     /\ summary' = NoSummary
     /\ UNCHANGED <<json, session_state, added>>

(***************************************************************************)
(* pages/Visuals.py: one run of the script. picked is the multiselect,     *)
(* pressed the button "Add current picks to favorites", top_k the slider;  *)
(* the parameters are the values the user may give these widgets.          *)
(* The select box of Graph 3 is left at the option the code preselects.    *)
(* A run that ends in an uncaught exception keeps what it did before.      *)
(***************************************************************************)
VisualsRun(selections, buttons, positions) ==
  \E csv_df \in {LoadCsv(csv)} :
  \E nums \in {numeric_value(csv_df)}, options \in {all_categories(csv_df)} :
  LET payload == json_payload(json)
      cats == IF HasColumn(csv_df, category) THEN Column(csv_df, category)
              ELSE <<>>
      bars == json_bar_df(payload)
      loaded == [NoVisuals EXCEPT !.csv_df = csv_df, !.numeric_value = nums]
      graph1 == [loaded EXCEPT !.json_bar_df = bars,
                               !.g1 = IF bars /= <<>> THEN "chart" ELSE "warning",
                               !.all_categories = options]
      \* lines 96-97: the favorites list is created empty when absent
      favorites == IF session_state.has_favorites THEN session_state.favorites
                   ELSE <<>>
  IN /\ page' = "Visuals"
     /\ submission' = NoSubmission
     /\ msg' = "none"
     /\ shown' = NoDisplay
     /\ summary' = NoSummary
     /\ UNCHANGED <<csv, json, accepted, header_writes>>
     /\ IF JsonException(payload) /= "none" THEN
          \* the script stops at line 59 or 60, before any widget
          /\ visuals' = [loaded EXCEPT !.exception = JsonException(payload)]
          /\ UNCHANGED <<session_state, added>>
        ELSE IF \A k \in 1..Len(nums) : nums[k].nan THEN
          \* no numeric values: Graph 2 and Graph 3 show a warning, no widget
          /\ visuals' = [graph1 EXCEPT !.g2 = "warning", !.g3 = "warning"]
          /\ session_state' = [has_favorites |-> TRUE, favorites |-> favorites]
          /\ UNCHANGED added
        ELSE
          \E picked \in selections, pressed \in buttons,
             top_k \in positions \cap 1..Max(1, Len(options)) :
            LET new_favorites == IF pressed
                                 THEN AddToFavorites(favorites, picked)
                                 ELSE favorites
                default_cat == IF new_favorites /= <<>> THEN new_favorites[1]
                               ELSE options[1]
                chosen_cat == IF default_cat \in Range(options) THEN default_cat
                              ELSE options[1]
                series == {k \in 1..Len(nums) :
                             cats[k] = chosen_cat /\ ~nums[k].nan}
                drawn == [graph1 EXCEPT !.picked = picked, !.updated = pressed,
                                        !.top_k = top_k]
            IN /\ session_state' = [has_favorites |-> TRUE,
                                    favorites |-> new_favorites]
               /\ added' = IF pressed THEN added \cup picked ELSE added
               /\ IF ~HasColumn(csv_df, category) THEN
                    \* groupby("category") on a frame without that column
                    visuals' = [drawn EXCEPT !.exception = "KeyError"]
                  ELSE
                    \E totals \in Graph2Totals(cats, nums, picked, top_k) :
                      visuals' =
                        [drawn EXCEPT
                           !.totals = totals,
                           !.g2 = IF totals /= <<>> THEN "chart" ELSE "info",
                           !.default_cat = IF options = <<>> THEN <<>>
                                           ELSE default_cat,
                           !.g3 = IF options = <<>> THEN "warning"
                                  ELSE IF series /= {} THEN "chart"
                                  ELSE "info"]

(***************************************************************************)
(* The aggregate operation of the specification (section 4.3) for the      *)
(* metrics the source under src/ does not compute: average and count.      *)
(* A metric value is the fraction num/den (den > 0).                       *)
(***************************************************************************)
\* steps 1 and 2: the selection filter, and for sum and average the rows
\* with a numeric value only
SummaryFilter(cats, nums, selected, metric) ==
  {k \in 1..Len(cats) :
     /\ selected /= {} => cats[k] \in selected
     /\ metric /= "count" => ~nums[k].nan
     /\ cats[k] /= NaN}

\* the categories of the kept rows in the order of their first row
RECURSIVE FirstEncountered(_, _, _)
FirstEncountered(cats, keep, k) ==
  IF k > Len(cats) THEN <<>>
  ELSE (IF k \in keep /\ \A h \in 1..(k - 1) : h \in keep => cats[h] /= cats[k]
        THEN <<cats[k]>> ELSE <<>>) \o FirstEncountered(cats, keep, k + 1)

\* step 3: the metric of one group
GroupMetric(cats, nums, keep, c, metric) ==
  LET members == {k \in keep : cats[k] = c}
  IN [category |-> c,
      num |-> IF metric = "count" THEN Cardinality(members)
              ELSE SumRows(cats, nums, members, c),
      den |-> IF metric = "average" THEN Cardinality(members) ELSE 1]

MetricLess(a, b) == a.num * b.den < b.num * a.den

\* step 4: stable sort by metric, descending (insertion after the rows that
\* are not smaller)
RECURSIVE StableDescending(_)
StableDescending(rows) ==
  IF rows = <<>> THEN <<>>
  ELSE LET n == Len(rows)
           done == StableDescending(SubSeq(rows, 1, n - 1))
           x == rows[n]
           at == Cardinality({i \in 1..Len(done) : ~MetricLess(done[i], x)})
       IN SubSeq(done, 1, at) \o <<x>> \o SubSeq(done, at + 1, Len(done))

aggregate(cats, nums, selected, metric, topK) ==
  LET keep == SummaryFilter(cats, nums, selected, metric)
      keys == FirstEncountered(cats, keep, 1)
      groups == [i \in 1..Len(keys) |->
                   GroupMetric(cats, nums, keep, keys[i], metric)]
  IN head(StableDescending(groups), topK)

\* aggregate(load(), selected, metric, topK)
AggregateView(selected, metric, topK) ==
  \E table \in {LoadCsv(csv)} :
  LET cats == IF HasColumn(table, category) THEN Column(table, category)
              ELSE [k \in 1..Len(table.rows) |-> NaN]
  IN /\ page' = "aggregate"
     /\ summary' = [metric |-> metric, selected |-> selected, top_k |-> topK,
                    rows |-> aggregate(cats, numeric_value(table), selected,
                                       metric, topK)]
     /\ submission' = NoSubmission
     /\ msg' = "none"
     /\ shown' = NoDisplay
     /\ visuals' = NoVisuals
     /\ UNCHANGED <<csv, json, session_state, accepted, header_writes, added>>

(***************************************************************************)
(* Inputs of the model.                                                    *)
(***************************************************************************)
\* what is typed into "Enter a category:"
CategoryInputs == {<<>>, <<" ">>, <<" ", "A", " ">>, <<"A", ",", "\"">>}

\* what is typed into "Enter a corresponding value:"
ValueInputs == {<<" ">>, <<"1">>, <<"N", "A">>}

\* the options of the select box the model chooses among: the first and
\* the last
SpotChoices(doc) ==
  LET study_spots == load_spots_from_json(doc)
  IN {study_spots[1], study_spots[Len(study_spots)]}

\* the slider positions the model chooses among: the maximum, of two digits
RatingInputs == {10}

\* the multiselect offers the categories of the table
Offered == SUBSET Range(all_categories(LoadCsv(csv)))

\* the slider's initial value
DefaultTopK ==
  LET n == Len(all_categories(LoadCsv(csv)))
  IN Min(5, IF n > 0 THEN n ELSE 1)

(***************************************************************************)
(* Spec: the store, from a missing or zero-length data.csv.                *)
(***************************************************************************)
Init ==
  /\ csv \in {FileMissing, FileZeroLength}
  /\ json \in StoreDocs
  /\ Start

Survey ==
  \E submitted \in BOOLEAN, c \in CategoryInputs, v \in ValueInputs :
    SurveyRun(submitted, c, v)

PagesSurvey ==
  \E submitted \in BOOLEAN, spot \in SpotChoices(json), rating \in RatingInputs :
    PagesSurveyRun(submitted, spot, rating)

Next == Survey \/ PagesSurvey

Spec == Init /\ [][Next]_vars

(***************************************************************************)
(* SpecExt: the loaders, on files this system did not write.               *)
(***************************************************************************)
\* a single newline: no columns to parse
FileBlank == [exists |-> TRUE, data |-> <<"\n">>]
\* category,value / A,1 / B,2,3: the third line has too many fields
FileRagged ==
  [exists |-> TRUE,
   data |-> HeaderLine \o <<"A", ",", "1", "\n", "B", ",", "2", ",", "3", "\n">>]
\* category,value / "A,1: a quote that is never closed
FileOpenQuote ==
  [exists |-> TRUE, data |-> HeaderLine \o <<"\"", "A", ",", "1", "\n">>]
\* category,value / B,2 / A,x / A,1
FileGood ==
  to_csv_write([columns |-> Columns,
                rows |-> << <<<<"B">>, <<"2">>>>, <<<<"A">>, <<"x">>>>,
                            <<<<"A">>, <<"1">>>> >>])
\* value / 1: numeric values, no category column
FileNoCategory ==
  to_csv_write([columns |-> <<value>>, rows |-> << <<<<"1">>>> >>])

ExternalFiles ==
  {FileMissing, FileZeroLength, FileBlank, FileRagged, FileOpenQuote,
   FileGood, FileNoCategory}

InitExt ==
  /\ csv \in ExternalFiles
  /\ json \in ExternalDocs
  /\ Start

\* the pages opened without submitting the form
SurveyRender == SurveyRun(FALSE, <<>>, <<>>)

PagesSurveyRender ==
  \E spot \in SpotChoices(json) : PagesSurveyRun(FALSE, spot, 7)

VisualsRender == VisualsRun(Offered, BOOLEAN, 1..MaxRows)

NextExt == SurveyRender \/ PagesSurveyRender \/ VisualsRender

SpecExt == InitExt /\ [][NextExt]_vars

(***************************************************************************)
(* SpecAgg: the aggregation as a function of the table and the widget      *)
(* values, applied once to every table of at most MaxRows rows the         *)
(* submissions can have written.                                           *)
(***************************************************************************)
AggCategories == {<<"A">>, <<"B">>, <<"C">>}
AggValues == {<<"1">>, <<"2">>, <<"x">>}
\* a row whose category reads back as missing is among them
AggRows ==
  {<<c, v>> : c \in AggCategories, v \in AggValues} \cup {<<<<"N", "A">>, <<"1">>>>}

\* data.csv after the submissions of the rows, in order
FilesOf(kinds, most) ==
  {to_csv_write([columns |-> Columns, rows |-> rows]) :
     rows \in UNION {[1..n -> kinds] : n \in 1..most}}

AggFiles == FilesOf(AggRows, MaxRows)

InitAgg ==
  /\ csv \in AggFiles
  /\ json = DocGood
  /\ Start

\* the filter of Graph 2 applied to any selection, also of categories the
\* table does not hold
Graph2 ==
  /\ page = "none"
  /\ VisualsRun(SUBSET AggCategories, {FALSE}, 1..MaxRows)

Summary ==
  /\ page = "none"
  /\ \E selected \in SUBSET AggCategories, metric \in {"average", "count"},
        topK \in 1..MaxRows :
       AggregateView(selected, metric, topK)

NextAgg == Graph2 \/ Summary

SpecAgg == InitAgg /\ [][NextAgg]_vars

(***************************************************************************)
(* SpecFav: the favorites over a session of Visuals runs; the slider stays *)
(* at its initial value.                                                   *)
(***************************************************************************)
FavRows == {<<<<"A">>, <<"1">>>>, <<<<"B">>, <<"2">>>>, <<<<"C">>, <<"x">>>>}

InitFav ==
  /\ csv \in FilesOf(FavRows, MaxRows)
  /\ json = DocGood
  /\ Start

Favorites == VisualsRun(Offered, BOOLEAN, {DefaultTopK})

NextFav == Favorites

SpecFav == InitFav /\ [][NextFav]_vars

(***************************************************************************)
(* Properties of the store (Spec).                                         *)
(***************************************************************************)
SurveyPages == {"Survey", "pages/Survey"}

\* a written row as read_csv returns it
ReadBack(row) == [j \in 1..Len(row) |-> NaConvert(row[j])]

\* C1 (append monotonic): from a missing or zero-length data.csv, what a
\* Survey page loads after any sequence of submissions is the table of the
\* rows written so far, one per successful submission, in the order of the
\* submissions; nothing is shown as a table before the first one.
C1_AppendMonotonic ==
  page \in SurveyPages =>
    IF accepted = <<>> THEN shown.status = "warning"
    ELSE /\ shown.status = "dataframe"
         /\ shown.df.columns = Columns
         /\ Len(shown.df.rows) = Len(accepted)
         /\ \A i \in 1..Len(accepted) : shown.df.rows[i] = ReadBack(accepted[i])

\* three submissions were written, the first with a category that needs
\* quoting, and a rejected submission was just made
C1_Witness ==
  /\ page = "Survey"
  /\ msg = "error"
  /\ Len(accepted) = 3
  /\ accepted[1][1] = <<"A", ",", "\"">>
  /\ accepted[2] /= accepted[1]
  /\ Len(shown.df.rows) = 3

\* C2 (header once): data.csv holds no header before the first successful
\* submission; afterwards the header was written exactly once, it is the
\* first line, and every other line is the data row of one submission.
C2_HeaderOnce ==
  IF accepted = <<>>
  THEN header_writes = 0 /\ csv \in {FileMissing, FileZeroLength}
  ELSE /\ header_writes = 1
       /\ SubSeq(csv.data, 1, Len(HeaderLine)) = HeaderLine
       /\ \A t \in {Tokenize(csv.data, 1, "START_RECORD", <<>>, <<>>, <<>>)} :
            /\ t.ok
            /\ Len(t.rows) = 1 + Len(accepted)
            /\ t.rows[1] = Columns
            /\ \A k \in 2..Len(t.rows) : t.rows[k] = accepted[k - 1]

\* three rows were appended and the header was written once
C2_Witness ==
  /\ Len(accepted) = 3
  /\ header_writes = 1
  /\ page = "pages/Survey"

\* C3 (validation blocks write), as claimed: a submission whose category or
\* value is empty after strip() shows the error and leaves data.csv as it
\* was. pages/Survey.py writes a label of blanks from data.json.
C3_ValidationBlocksWrite ==
  [][(submission'.submitted
        /\ ~Valid(submission'.category, submission'.value))
       => (msg' = "error" /\ csv' = csv)]_vars

(***************************************************************************)
(* Properties of the loaders (SpecExt).                                    *)
(***************************************************************************)
\* read_csv fails on the file
Unparseable(file) == file_exists_and_not_empty(file) /\ read_csv(file.data).raised

\* C4 (fail-soft load), as claimed: no place that loads data.csv raises; a
\* missing, zero-length or unparseable file gives the empty table. The
\* Survey pages call read_csv outside any try.
C4_LoadNeverRaises ==
  /\ page \in SurveyPages => shown.status /= "exception"
  /\ page = "Visuals" =>
       /\ ~visuals.csv_df.raised
       /\ (~file_exists_and_not_empty(csv) \/ Unparseable(csv))
            => visuals.csv_df = EmptyFrame

\* the expected structure: an object whose data_points, if any, is a list
ExpectedStructure(doc) ==
  /\ doc.exists /\ doc.size > 0
  /\ doc.kind = "object"
  /\ doc.has_points => doc.points_is_list

\* C5 (fail-soft reference), as claimed: loading data.json never raises; a
\* document that is missing, empty, malformed or not of the expected
\* structure gives no data points. Visuals.py calls .get and pd.DataFrame
\* outside the try.
C5_ReferenceNeverRaises ==
  page = "Visuals" =>
    /\ visuals.exception \notin {"AttributeError", "ValueError"}
    /\ ~ExpectedStructure(json) => visuals.json_bar_df = <<>>

(***************************************************************************)
(* Properties of the aggregation (SpecAgg), stated on the table itself.    *)
(***************************************************************************)
\* Graph 2 was computed
Aggregated == page = "Visuals" /\ visuals.g2 \in {"chart", "info"}

\* the value parses as a number (the values of the tables are unsigned)
IsNumeral(cell) ==
  cell /= NaN /\ cell /= <<>> /\ \A i \in 1..Len(cell) : IsDigit(cell[i])

\* an empty selection selects every category
Selects(picked, c) == picked = {} \/ c \in picked

\* the rows of category c under the selection: all, and the numeric ones
RowsOf(df, picked, c) ==
  {k \in 1..Len(df.rows) : df.rows[k][1] = c /\ Selects(picked, c)}
NumericRowsOf(df, picked, c) ==
  {k \in RowsOf(df, picked, c) : IsNumeral(df.rows[k][2])}

RECURSIVE SumCells(_, _)
SumCells(df, rows) ==
  IF rows = {} THEN 0
  ELSE LET k == CHOOSE x \in rows : TRUE
       IN ParseDigits(df.rows[k][2], 0) + SumCells(df, rows \ {k})

TotalOf(df, picked, c) == SumCells(df, NumericRowsOf(df, picked, c))

\* the categories of the table, and those left with a numeric row
CategoriesOf(df) == {df.rows[k][1] : k \in 1..Len(df.rows)} \ {NaN}
NumericCategories(df, picked) ==
  {c \in CategoriesOf(df) : NumericRowsOf(df, picked, c) /= {}}

Kept(rows) == {rows[i].category : i \in 1..Len(rows)}

\* C6 (top-K and ordering): the sum aggregate holds one row per remaining
\* category with that category's total, in non-increasing order of total,
\* cut to the first top_k rows; no category left out has a larger total
\* than one kept.
C6_TopKDescending ==
  Aggregated =>
    LET df == visuals.csv_df
        picked == visuals.picked
        totals == visuals.totals
        remaining == NumericCategories(df, picked)
    IN /\ \A i \in 1..Len(totals) :
            /\ totals[i].category \in remaining
            /\ totals[i].total = TotalOf(df, picked, totals[i].category)
       /\ \A i, j \in 1..Len(totals) :
            i /= j => totals[i].category /= totals[j].category
       /\ \A i, j \in 1..Len(totals) :
            i < j => totals[i].total >= totals[j].total
       /\ Len(totals) = Min(visuals.top_k, Cardinality(remaining))
       /\ \A c \in remaining \ Kept(totals) : \A i \in 1..Len(totals) :
            TotalOf(df, picked, c) <= totals[i].total

\* three categories remain, two are kept, the larger total first
C6_Witness ==
  /\ Aggregated
  /\ Cardinality(NumericCategories(visuals.csv_df, visuals.picked)) = 3
  /\ visuals.top_k = 2
  /\ Len(visuals.totals) = 2
  /\ visuals.totals[1].total > visuals.totals[2].total

\* the first row of category c among the numeric rows of the selection
FirstRow(df, picked, c) ==
  CHOOSE k \in NumericRowsOf(df, picked, c) :
    \A h \in NumericRowsOf(df, picked, c) : k <= h

\* C7 (ties), as claimed: categories of equal total are in the order of
\* their first rows, and truncation keeps the earlier ones.
C7_TiesFirstEncountered ==
  Aggregated =>
    LET df == visuals.csv_df
        picked == visuals.picked
        totals == visuals.totals
    IN /\ \A i, j \in 1..Len(totals) :
            (i < j /\ totals[i].total = totals[j].total)
              => FirstRow(df, picked, totals[i].category)
                   < FirstRow(df, picked, totals[j].category)
       /\ \A c \in NumericCategories(df, picked) \ Kept(totals) :
            \A i \in 1..Len(totals) :
              totals[i].total = TotalOf(df, picked, c)
                => FirstRow(df, picked, totals[i].category)
                     < FirstRow(df, picked, c)

\* C7, amended: whatever the order among equal totals, the row at position i
\* holds a total of rank i: fewer than i categories have a larger total and
\* at least i have a total as large.
C7_TiesAnyOrder ==
  Aggregated =>
    LET df == visuals.csv_df
        picked == visuals.picked
        totals == visuals.totals
        remaining == NumericCategories(df, picked)
        larger(i) == {c \in remaining : TotalOf(df, picked, c) > totals[i].total}
        as_large(i) == {c \in remaining : TotalOf(df, picked, c) >= totals[i].total}
    IN \A i \in 1..Len(totals) :
         Cardinality(larger(i)) < i /\ i <= Cardinality(as_large(i))

\* two categories of equal total, the one encountered later first
C7_Witness ==
  /\ Aggregated
  /\ \E i, j \in 1..Len(visuals.totals) :
       /\ i < j
       /\ visuals.totals[i].total = visuals.totals[j].total
       /\ FirstRow(visuals.csv_df, visuals.picked, visuals.totals[i].category)
            > FirstRow(visuals.csv_df, visuals.picked, visuals.totals[j].category)

C9_EmptySelection ==
  Aggregated =>
    LET df == visuals.csv_df
        picked == visuals.picked
        totals == visuals.totals
        every == NumericCategories(df, {})
    IN /\ (picked = {} \/ CategoriesOf(df) \subseteq picked) =>
            /\ Kept(totals) \subseteq every
            /\ Len(totals) = Min(visuals.top_k, Cardinality(every))
            /\ \A i \in 1..Len(totals) :
                 totals[i].total = TotalOf(df, {}, totals[i].category)
            /\ \A c \in every \ Kept(totals) : \A i \in 1..Len(totals) :
                 TotalOf(df, {}, c) <= totals[i].total
       /\ picked /= {} => Kept(totals) \subseteq picked
       /\ (picked /= {} /\ \A c \in picked : NumericRowsOf(df, picked, c) = {}) =>
            /\ totals = <<>>
            /\ visuals.g2 = "info"
            /\ visuals.exception = "none"

\* a selection of a category the table does not hold
C9_Witness ==
  /\ Aggregated
  /\ visuals.picked /= {}
  /\ visuals.picked \cap CategoriesOf(visuals.csv_df) = {}
  /\ Len(visuals.csv_df.rows) >= 2
  /\ visuals.g2 = "info"

(***************************************************************************)
(* Properties of the favorites (SpecFav).                                  *)
(***************************************************************************)
\* C10 (favorites): the list starts empty; it is always sorted ascending
\* without duplicates and holds exactly the picks added so far; an add never
\* removes a favorite, adding picks that are all favorites already changes
\* nothing, and a run without the button pressed leaves the list as it was.
C10_Favorites ==
  /\ [](LET f == session_state.favorites
        IN /\ ~session_state.has_favorites => f = <<>>
           /\ page = "none" => f = <<>>
           /\ \A i \in 1..(Len(f) - 1) : StrLess(f[i], f[i + 1])
           /\ Range(f) = added)
  /\ [][LET f == session_state.favorites
            g == session_state'.favorites
        IN /\ Range(f) \subseteq Range(g)
           /\ ~visuals'.updated => g = f
           /\ (visuals'.updated /\ visuals'.picked \subseteq Range(f)) => g = f
           /\ visuals'.updated => Range(g) = Range(f) \cup visuals'.picked]_vars

\* an add to favorites that were there already, giving three in all
C10_Witness ==
  /\ visuals.updated
  /\ Len(session_state.favorites) = 3
  /\ visuals.picked /= {}
  /\ ~(Range(session_state.favorites) \subseteq visuals.picked)

====
